---- MODULE Spec2Model ----
(***************************************************************************)
(* Model of get_world_cities.py: the resumable enrichment pipeline         *)
(* (process_entries), its three write-through caches, the JSONL ledger     *)
(* and the replay of the ledger at startup.                                *)
(*                                                                         *)
(* Encoding.  A Python dict is a function from its keys (strings) to its   *)
(* values.  JSON scalars are written as their text: "null" is None,        *)
(* "true"/"false" are the booleans, anything else is a string or number.   *)
(* A city record is [flat |-> scalar fields, nested |-> dict-valued        *)
(* fields (CountryDetails, StateDetails)].  A file holding a JSON mapping  *)
(* is [ok |-> it parses, data |-> the mapping]; a missing file reads as    *)
(* the empty mapping (load_json), so it is [ok |-> TRUE, data |-> {}].     *)
(***************************************************************************)
EXTENDS Integers, Sequences, FiniteSets, TLC

VARIABLES
    input,            \* cities_input.json: the list of Input Records
    ledger,           \* cities_enriched.jsonl: the lines of the file
    qid_file,         \* qid_lookup.json
    countries_file,   \* countries_cache.json
    states_file,      \* states_cache.json
    pc,               \* where the process is
    qid_lookup,       \* process_entries locals
    country_cache,
    state_cache,
    processed,
    to_process,
    idx,
    city,
    qid,
    city_info,
    paced,            \* the pacing sleep ran after the last record the loop left
    runs,             \* history: runs started
    ledger0,          \* history: the ledger when the current run started
    prevDone,         \* history: the run before the current one ran to its end
    skipped,          \* history: names the resolver missed in the current run
    prevSkipped,      \* history: the same for the run before
    requests          \* history: external requests issued by the current run

durable == <<input, ledger, qid_file, countries_file, states_file>>
memory == <<qid_lookup, country_cache, state_cache, processed, to_process, idx,
            city, qid, city_info, paced>>
history == <<runs, ledger0, prevDone, skipped, prevSkipped, requests>>
vars == <<durable, pc, memory, history>>

-----------------------------------------------------------------------------
(* Bounds *)

\* Number of city names the input may list.
MaxInput == 2
\* Number of times process_entries is started.
MaxRuns == 2
\* Lines of an externally supplied ledger (replay specification).
MaxLines == 3

-----------------------------------------------------------------------------
(* Python values *)

None == "null"
PyTrue == "true"
PyFalse == "false"

EmptyDict == [k \in {} |-> None]

\* dict.get(key) with the default None
Get(d, k) == IF k \in DOMAIN d THEN d[k] ELSE None

\* d[k] = v
Put(d, k, v) == [x \in DOMAIN d \cup {k} |-> IF x = k THEN v ELSE d[x]]

\* d.update(e)
Update(d, e) == [x \in DOMAIN d \cup DOMAIN e |-> IF x \in DOMAIN e THEN e[x] ELSE d[x]]

\* truth value of a scalar: None and the empty string are false
Truthy(v) == v \notin {None, ""}

PyBool(b) == IF b THEN PyTrue ELSE PyFalse

EmptyRecord == [flat |-> EmptyDict, nested |-> EmptyDict]

-----------------------------------------------------------------------------
(* The external knowledge base: what its two endpoints may answer *)

CityIds == 1..MaxInput
CityName(i) == "city" \o ToString(i)
CityEID(i) == "Q" \o ToString(i)
Names == {CityName(i) : i \in CityIds}
CountryEID == "Q100"
StateEID == "Q200"

\* A statement value: a JSON object (t = "dict") or a JSON string (t = "str").
DictValue(f) == [t |-> "dict", f |-> f, s |-> ""]
StrValue(s) == [t |-> "str", f |-> EmptyDict, s |-> s]
NoValue == [t |-> "none", f |-> EmptyDict, s |-> ""]

\* A response: ok = FALSE is a transport or parse failure (requests.get or
\* response.json() raises).
Failure == [ok |-> FALSE, search |-> <<>>, labels |-> EmptyDict, claims |-> EmptyDict]
SearchAnswer(hits) == [ok |-> TRUE, search |-> hits, labels |-> EmptyDict, claims |-> EmptyDict]
Document(labels, claims) == [ok |-> TRUE, search |-> <<>>, labels |-> labels, claims |-> claims]

SearchResponses(name) ==
    {Failure, SearchAnswer(<<>>)}
    \cup {SearchAnswer(<<CityEID(i)>>) : i \in {j \in CityIds : CityName(j) = name}}

Coordinate == DictValue([k \in {"latitude", "longitude"} |->
                            IF k = "latitude" THEN "10.0" ELSE "20.0"])
BadCoordinate == DictValue([k \in {"altitude"} |-> "1.0"])
EntityRef(eid) == DictValue([k \in {"id"} |-> eid])
Quantity == DictValue([k \in {"amount"} |-> "+5000"])

Restrict(f, S) == [k \in DOMAIN f \cap S |-> f[k]]

CityClaims(c, s, rest) ==
    Restrict([p \in {"P17", "P131", "P625", "P1082", "P300"} |->
                 CASE p = "P17" -> <<EntityRef(CountryEID)>>
                   [] p = "P131" -> <<EntityRef(StateEID)>>
                   [] p = "P625" -> <<Coordinate>>
                   [] p = "P1082" -> <<Quantity>>
                   [] OTHER -> <<StrValue("iso-city")>>],
             (IF c THEN {"P17"} ELSE {}) \cup (IF s THEN {"P131"} ELSE {})
             \cup (IF rest THEN {"P625", "P1082", "P300"} ELSE {}))

CityLabels(rest) == IF rest THEN [k \in {"en", "ar"} |-> "label-" \o k] ELSE EmptyDict

\* What the entity endpoint may answer for a city: a failure, a document whose
\* coordinate has no latitude, or a document of the city.  The first city has a
\* complete document; any other city has a document without any label or scalar
\* property and, the second city, also one that names the country.
CityResponses(eid) ==
    {Failure, Document(EmptyDict, [p \in {"P625"} |-> <<BadCoordinate>>])}
    \cup (IF eid = CityEID(1)
          THEN {Document(CityLabels(TRUE), CityClaims(TRUE, TRUE, TRUE))}
          ELSE {Document(EmptyDict, CityClaims(c, FALSE, FALSE)) :
                   c \in {FALSE, eid = CityEID(2)}})

CountryResponses ==
    {Failure,
     Document(EmptyDict, EmptyDict),
     Document([k \in {"en", "ar"} |-> "country-" \o k],
              [p \in {"P297", "P36"} |->
                 IF p = "P297" THEN <<StrValue("TV")>> ELSE <<EntityRef(CityEID(1))>>])}

StateResponses ==
    {Failure,
     Document(EmptyDict, EmptyDict),
     Document([k \in {"en", "ar"} |-> "state-" \o k],
              [p \in {"P300", "P17"} |->
                 IF p = "P300" THEN <<StrValue("TV-1")>> ELSE <<EntityRef(CountryEID)>>])}

-----------------------------------------------------------------------------
(* Helpers: load_json, save_json, append_jsonl, load_processed_city_names *)

\* A cache file cut short by a rewrite that did not finish: json.load raises.
TornFile == [ok |-> FALSE, data |-> EmptyDict]

\* save_json: the file is opened with 'w' (cut to nothing) and rewritten whole.
save_json(data) == [ok |-> TRUE, data |-> data]

\* load_json: the mapping, or an uncaught json.JSONDecodeError.
load_json(file) == [raised |-> ~file.ok, value |-> file.data]

\* A ledger line.  kind says what json.loads makes of the stripped line:
\*   "object"    a JSON object (an Output Record when it has CityNameEn)
\*   "value"     valid JSON that is no object (a number, a list, a string, null)
\*   "truncated" the beginning of a JSON object
\*   "empty"     nothing
\*   "garbage"   any other text that is not JSON
\* nl says whether the line ends with its newline (only the last line of a file
\* may lack it).
Line(kind, rec, nl) == [kind |-> kind, rec |-> rec, nl |-> nl]
RecordLine(rec) == Line("object", rec, TRUE)
Fragment == Line("truncated", EmptyRecord, FALSE)

\* append_jsonl with the file opened for writing instead of appending: the record
\* replaces what the file held.
append_jsonl_rewrite(file, record) == <<RecordLine(record)>>

\* append_jsonl: the text is written at the end of the file, so after a last line
\* without newline it continues that line, and the two together are not JSON
\* (rec keeps the record whose text the line ends with).
append_jsonl(file, record) ==
    IF Len(file) > 0 /\ ~file[Len(file)].nl
    THEN [file EXCEPT ![Len(file)] = Line("garbage", record, TRUE)]
    ELSE Append(file, RecordLine(record))

\* The file after the process is stopped inside append_jsonl's write, with only
\* a beginning of the text on disk.
append_cut(file) ==
    IF Len(file) > 0 /\ ~file[Len(file)].nl
    THEN file
    ELSE Append(file, Fragment)

\* load_processed_city_names: json.JSONDecodeError is the only exception caught;
\* record.get on a value that is no dict raises AttributeError.
load_processed_city_names(file) ==
    [raised |-> \E i \in 1..Len(file) : file[i].kind = "value",
     value |-> {Get(file[i].rec.flat, "CityNameEn") :
                  i \in {j \in 1..Len(file) : file[j].kind = "object"}}]

-----------------------------------------------------------------------------
(* Wikidata integration: get_wikidata_id, get_entity_info, enrich_city *)

\* get_wikidata_id without the look in the cache: the search is always issued.
get_wikidata_id_uncached(name, lookup, resp) ==
    IF resp.ok /\ Len(resp.search) > 0
    THEN [qid |-> resp.search[1],
          lookup |-> Put(lookup, name, resp.search[1]),
          requested |-> TRUE, saved |-> TRUE]
    ELSE [qid |-> Get(lookup, name), lookup |-> lookup, requested |-> TRUE, saved |-> FALSE]

\* get_wikidata_id that also stores a miss in the cache.
get_wikidata_id_negative(name, lookup, resp) ==
    IF name \in DOMAIN lookup
    THEN [qid |-> lookup[name], lookup |-> lookup, requested |-> FALSE, saved |-> FALSE]
    ELSE IF resp.ok /\ Len(resp.search) > 0
         THEN [qid |-> resp.search[1],
               lookup |-> Put(lookup, name, resp.search[1]),
               requested |-> TRUE, saved |-> TRUE]
         ELSE [qid |-> None, lookup |-> Put(lookup, name, None),
               requested |-> TRUE, saved |-> TRUE]

\* get_wikidata_id(name, qid_lookup) given the search endpoint's answer.
\* requested: a request was issued; saved: save_json(QID_CACHE_FILE) was called.
get_wikidata_id(name, lookup, resp) ==
    IF name \in DOMAIN lookup
    THEN [qid |-> lookup[name], lookup |-> lookup, requested |-> FALSE, saved |-> FALSE]
    ELSE IF resp.ok /\ Len(resp.search) > 0
         THEN [qid |-> resp.search[1],
               lookup |-> Put(lookup, name, resp.search[1]),
               requested |-> TRUE, saved |-> TRUE]
         ELSE [qid |-> None, lookup |-> lookup, requested |-> TRUE, saved |-> FALSE]

\* get_claim(prop): the first value of the property, None without one
get_claim(claims, prop) ==
    IF prop \in DOMAIN claims /\ Len(claims[prop]) > 0 THEN claims[prop][1] ELSE NoValue

\* x.get("id") if isinstance(x, dict) else None
IdOf(v) == IF v.t = "dict" THEN Get(v.f, "id") ELSE None

\* a statement value used as a field as it is
Scalar(v) == CASE v.t = "str" -> v.s
               [] v.t = "none" -> None
               [] OTHER -> "object"

ValueTruthy(v) == CASE v.t = "str" -> v.s # ""
                    [] v.t = "none" -> FALSE
                    [] OTHER -> DOMAIN v.f # {}

\* get_claim("P625")[key] raises (KeyError, TypeError) unless P625 is a dict with key
Subscriptable(v, key) == v.t = "dict" /\ key \in DOMAIN v.f

\* get_entity_info(qid, level) given the entity endpoint's answer
get_entity_info(eid, level, resp) ==
    IF ~resp.ok THEN EmptyDict
    ELSE LET info == [k \in {level \o "QID", level \o "NameEn", level \o "NameAr"} |->
                        CASE k = level \o "QID" -> eid
                          [] k = level \o "NameEn" -> Get(resp.labels, "en")
                          [] OTHER -> Get(resp.labels, "ar")]
             capital == get_claim(resp.claims, "P36")
             parent == get_claim(resp.claims, "P17")
             country == Put(info, "IsoAlpha2", Scalar(get_claim(resp.claims, "P297")))
             state == Put(info, "IsoCode", Scalar(get_claim(resp.claims, "P300")))
         IN  CASE level = "Country" ->
                    IF capital.t = "dict"
                    THEN Put(country, "CapitalQID", Get(capital.f, "id"))
                    ELSE country
               [] level = "State" ->
                    IF parent.t = "dict"
                    THEN Put(state, "CountryQID", Get(parent.f, "id"))
                    ELSE state
               [] OTHER -> info

CityKeys == {"CityNameAr", "CountryQID", "StateQID", "Latitude", "Longitude",
             "Population", "IsoCode"}

\* enrich_city that leaves out the fields the document has no value for.
enrich_city_sparse(resp) ==
    IF ~resp.ok THEN EmptyDict
    ELSE LET country == IdOf(get_claim(resp.claims, "P17"))
         IN  IF Truthy(country) THEN [k \in {"CountryQID"} |-> country] ELSE EmptyDict

\* enrich_city(qid) given the entity endpoint's answer
enrich_city(resp) ==
    LET coord == get_claim(resp.claims, "P625")
        population == get_claim(resp.claims, "P1082")
    IN  IF ~resp.ok THEN EmptyDict
        ELSE IF ValueTruthy(coord)
                /\ ~(Subscriptable(coord, "latitude") /\ Subscriptable(coord, "longitude"))
        THEN EmptyDict
        ELSE [k \in CityKeys |->
                CASE k = "CityNameAr" -> Get(resp.labels, "ar")
                  [] k = "CountryQID" -> IdOf(get_claim(resp.claims, "P17"))
                  [] k = "StateQID" -> IdOf(get_claim(resp.claims, "P131"))
                  [] k = "Latitude" ->
                        IF ValueTruthy(coord) THEN coord.f["latitude"] ELSE None
                  [] k = "Longitude" ->
                        IF ValueTruthy(coord) THEN coord.f["longitude"] ELSE None
                  [] k = "Population" ->
                        IF population.t = "dict" THEN Get(population.f, "amount")
                        ELSE Scalar(population)
                  [] OTHER -> Scalar(get_claim(resp.claims, "P300"))]

-----------------------------------------------------------------------------
(* The input file and the initial state *)

\* Fields a caller puts beside the name: for the first city fields named like
\* the ones the pipeline writes, for the second none, for any other a field of
\* its own.
CallerFields(i) ==
    CASE i = 1 -> [k \in {"Region", "Population", "CountryQID", "IsCapital"} |->
                     CASE k = "Region" -> "north"
                       [] k = "Population" -> "42"
                       [] k = "CountryQID" -> "Q999"
                       [] OTHER -> "yes"]
      [] i = 2 -> EmptyDict
      [] OTHER -> [k \in {"Region"} |-> "south"]

InputRecord(i) == Put(CallerFields(i), "CityNameEn", CityName(i))

\* Lists of at most MaxInput records with pairwise different names.
Inputs ==
    UNION {{s \in [1..n -> {InputRecord(i) : i \in CityIds}] :
              \A i, j \in 1..n : i # j => s[i]["CityNameEn"] # s[j]["CityNameEn"]} :
           n \in 0..MaxInput}

NoRequests == [search |-> EmptyDict, City |-> EmptyDict, Country |-> EmptyDict,
               State |-> EmptyDict]
Count(d, k) == IF k \in DOMAIN d THEN d[k] ELSE 0
Bump(req, dom, key) == [req EXCEPT ![dom] = Put(@, key, Count(@, key) + 1)]

\* The locals of a process that is not running.
NoMemory ==
    /\ qid_lookup' = EmptyDict
    /\ country_cache' = EmptyDict
    /\ state_cache' = EmptyDict
    /\ processed' = {}
    /\ to_process' = <<>>
    /\ idx' = 0
    /\ city' = EmptyRecord
    /\ qid' = None
    /\ city_info' = EmptyDict
    /\ paced' = TRUE

\* What is recorded of a run is dropped when the process is stopped.
NoHistory ==
    /\ skipped' = {}
    /\ requests' = NoRequests
    /\ UNCHANGED <<runs, ledger0, prevDone, prevSkipped>>

\* A data directory that holds only the input file.
Init ==
    /\ input \in Inputs
    /\ ledger = <<>>
    /\ qid_file = save_json(EmptyDict)
    /\ countries_file = save_json(EmptyDict)
    /\ states_file = save_json(EmptyDict)
    /\ pc = "idle"
    /\ qid_lookup = EmptyDict
    /\ country_cache = EmptyDict
    /\ state_cache = EmptyDict
    /\ processed = {}
    /\ to_process = <<>>
    /\ idx = 0
    /\ city = EmptyRecord
    /\ qid = None
    /\ city_info = EmptyDict
    /\ paced = TRUE
    /\ runs = 0
    /\ ledger0 = <<>>
    /\ prevDone = FALSE
    /\ skipped = {}
    /\ prevSkipped = {}
    /\ requests = NoRequests

Running == {"resolve", "enrich", "country", "state", "append"}
Stopped == {"idle", "done", "killed", "aborted"}

-----------------------------------------------------------------------------
(* process_entries *)

\* The work set without the filter on the processed names.
UnprocessedAll(cities, done) == cities

\* to_process = [c for c in cities if c["CityNameEn"] not in processed]
Unprocessed(cities, done) == SelectSeq(cities, LAMBDA c : c["CityNameEn"] \notin done)

\* A loop that goes on with the fetch for the next city without resolving its
\* name.
NextCityUnresolved ==
    /\ idx' = idx + 1
    /\ pc' = IF idx + 1 > Len(to_process) THEN "done" ELSE "enrich"

\* The loop's next position: the next city, or the end of process_entries.
NextCity ==
    /\ idx' = idx + 1
    /\ pc' = IF idx + 1 > Len(to_process) THEN "done" ELSE "resolve"

\* Lines 134-143: the files are loaded, the ledger is replayed and the work set
\* is computed.  An exception raised by a load ends the process.
StartRun ==
    /\ pc \in Stopped
    /\ runs < MaxRuns
    /\ runs' = runs + 1
    /\ ledger0' = ledger
    /\ prevDone' = (pc = "done")
    /\ prevSkipped' = IF pc = "done" THEN skipped ELSE {}
    /\ skipped' = {}
    /\ requests' = NoRequests
    /\ UNCHANGED durable
    /\ LET q == load_json(qid_file)
           c == load_json(countries_file)
           s == load_json(states_file)
           p == load_processed_city_names(ledger)
       IN  IF q.raised \/ c.raised \/ s.raised \/ p.raised
           THEN /\ pc' = "aborted"
                /\ NoMemory
           ELSE /\ qid_lookup' = q.value
                /\ country_cache' = c.value
                /\ state_cache' = s.value
                /\ processed' = p.value
                /\ to_process' = Unprocessed(input, p.value)
                /\ idx' = 1
                /\ pc' = IF Unprocessed(input, p.value) = <<>> THEN "done" ELSE "resolve"
                /\ city' = EmptyRecord
                /\ qid' = None
                /\ city_info' = EmptyDict
                /\ paced' = TRUE

\* Lines 146-151: the city is taken from the work set and its name resolved;
\* without a QID the loop continues with the next city, and the sleep of line
\* 180 is not reached.
Resolve ==
    /\ pc = "resolve"
    /\ LET name == to_process[idx]["CityNameEn"]
       IN  \E resp \in SearchResponses(name) :
             LET r == get_wikidata_id(name, qid_lookup, resp)
             IN  /\ qid' = r.qid
                 /\ qid_lookup' = r.lookup
                 /\ qid_file' = IF r.saved THEN save_json(r.lookup) ELSE qid_file
                 /\ requests' = IF r.requested THEN Bump(requests, "search", name)
                                ELSE requests
                 /\ city' = [flat |-> to_process[idx], nested |-> EmptyDict]
                 /\ city_info' = EmptyDict
                 /\ IF Truthy(r.qid)
                    THEN pc' = "enrich" /\ idx' = idx /\ skipped' = skipped
                         /\ paced' = paced
                    ELSE NextCity /\ skipped' = skipped \cup {name} /\ paced' = FALSE
    /\ UNCHANGED <<input, ledger, countries_file, states_file, country_cache, state_cache,
                   processed, to_process, runs, ledger0, prevDone, prevSkipped>>

\* Lines 153-154: city_info = enrich_city(qid); city.update(city_info)
Enrich ==
    /\ pc = "enrich"
    /\ \E resp \in CityResponses(qid) :
          /\ city_info' = enrich_city(resp)
          /\ city' = [city EXCEPT !.flat = Update(@, enrich_city(resp))]
    /\ requests' = Bump(requests, "City", qid)
    /\ pc' = "country"
    /\ UNCHANGED <<durable, qid_lookup, country_cache, state_cache, processed, to_process,
                   idx, qid, paced, runs, ledger0, prevDone, skipped, prevSkipped>>

\* The capital check that only asks whether the country has a capital.
CapitalCheckAnyCapital(country_info, eid) == PyBool("CapitalQID" \in DOMAIN country_info)

\* Lines 166-167: city["IsCapital"] = country_info.get("CapitalQID") == qid
CapitalCheck(country_info, eid) == PyBool(Get(country_info, "CapitalQID") = eid)

\* Lines 157-169: the country is looked up in the cache, fetched and saved when
\* it is not there, attached to the city, and IsCapital is set.
CountryLink ==
    /\ pc = "country"
    /\ LET cqid == Get(city_info, "CountryQID")
       IN  IF Truthy(cqid)
           THEN /\ IF cqid \notin DOMAIN country_cache
                   THEN \E resp \in CountryResponses :
                          /\ country_cache' =
                               Put(country_cache, cqid, get_entity_info(cqid, "Country", resp))
                          /\ countries_file' = save_json(country_cache')
                          /\ requests' = Bump(requests, "Country", cqid)
                   ELSE UNCHANGED <<country_cache, countries_file, requests>>
                /\ city' = [flat |-> Put(city.flat, "IsCapital",
                                         CapitalCheck(country_cache'[cqid], qid)),
                            nested |-> Put(city.nested, "CountryDetails", country_cache'[cqid])]
           ELSE /\ city' = [city EXCEPT !.flat = Put(@, "IsCapital", PyFalse)]
                /\ UNCHANGED <<country_cache, countries_file, requests>>
    /\ pc' = "state"
    /\ UNCHANGED <<input, ledger, qid_file, states_file, qid_lookup, state_cache, processed,
                   to_process, idx, qid, city_info, paced, runs, ledger0, prevDone, skipped,
                   prevSkipped>>

\* The state block without line 177: the state is fetched and cached, and not
\* attached to the city.
StateLinkDetached ==
    /\ pc = "state"
    /\ LET sqid == Get(city_info, "StateQID")
       IN  IF Truthy(sqid) /\ sqid \notin DOMAIN state_cache
           THEN \E resp \in StateResponses :
                  /\ state_cache' =
                       Put(state_cache, sqid, get_entity_info(sqid, "State", resp))
                  /\ states_file' = save_json(state_cache')
                  /\ requests' = Bump(requests, "State", sqid)
           ELSE UNCHANGED <<state_cache, states_file, requests>>
    /\ pc' = "append"
    /\ UNCHANGED <<input, ledger, qid_file, countries_file, qid_lookup, country_cache,
                   processed, to_process, idx, city, qid, city_info, paced, runs, ledger0,
                   prevDone, skipped, prevSkipped>>

\* Lines 172-177: the same for the state, without a capital.
StateLink ==
    /\ pc = "state"
    /\ LET sqid == Get(city_info, "StateQID")
       IN  IF Truthy(sqid)
           THEN /\ IF sqid \notin DOMAIN state_cache
                   THEN \E resp \in StateResponses :
                          /\ state_cache' =
                               Put(state_cache, sqid, get_entity_info(sqid, "State", resp))
                          /\ states_file' = save_json(state_cache')
                          /\ requests' = Bump(requests, "State", sqid)
                   ELSE UNCHANGED <<state_cache, states_file, requests>>
                /\ city' = [city EXCEPT !.nested = Put(@, "StateDetails", state_cache'[sqid])]
           ELSE UNCHANGED <<city, state_cache, states_file, requests>>
    /\ pc' = "append"
    /\ UNCHANGED <<input, ledger, qid_file, countries_file, qid_lookup, country_cache,
                   processed, to_process, idx, qid, city_info, paced, runs, ledger0,
                   prevDone, skipped, prevSkipped>>

\* Lines 179-180: the record is appended to the ledger, then the pacing sleep.
Emit ==
    /\ pc = "append"
    /\ ledger' = append_jsonl(ledger, city)
    /\ paced' = TRUE
    /\ NextCity
    /\ UNCHANGED <<input, qid_file, countries_file, states_file, qid_lookup, country_cache,
                   state_cache, processed, to_process, city, qid, city_info, history>>

-----------------------------------------------------------------------------
(* External termination of the process *)

\* The process is stopped between two writes: the files stay as they are.
Kill ==
    /\ pc \in Running
    /\ pc' = "killed"
    /\ NoMemory
    /\ NoHistory
    /\ UNCHANGED durable

\* The process is stopped inside save_json, after open(..., 'w') has cut the file
\* and before the new text is complete.
KillInSave ==
    /\ pc' = "killed"
    /\ NoMemory
    /\ \/ /\ pc = "resolve"
          /\ to_process[idx]["CityNameEn"] \notin DOMAIN qid_lookup
          /\ qid_file' = TornFile
          /\ UNCHANGED <<countries_file, states_file>>
       \/ /\ pc = "country"
          /\ Truthy(Get(city_info, "CountryQID"))
          /\ Get(city_info, "CountryQID") \notin DOMAIN country_cache
          /\ countries_file' = TornFile
          /\ UNCHANGED <<qid_file, states_file>>
       \/ /\ pc = "state"
          /\ Truthy(Get(city_info, "StateQID"))
          /\ Get(city_info, "StateQID") \notin DOMAIN state_cache
          /\ states_file' = TornFile
          /\ UNCHANGED <<qid_file, countries_file>>
    /\ NoHistory
    /\ UNCHANGED <<input, ledger>>

\* The process is stopped inside append_jsonl, with a part of the line written.
KillInAppend ==
    /\ pc = "append"
    /\ pc' = "killed"
    /\ NoMemory
    /\ ledger' = append_cut(ledger)
    /\ NoHistory
    /\ UNCHANGED <<input, qid_file, countries_file, states_file>>

Next ==
    \/ StartRun
    \/ Resolve
    \/ Enrich
    \/ CountryLink
    \/ StateLink
    \/ Emit
    \/ Kill
    \/ KillInSave
    \/ KillInAppend

Spec == Init /\ [][Next]_vars

-----------------------------------------------------------------------------
(* Replay of a ledger that was not written by this program alone *)

NameOnly(name) == [flat |-> [k \in {"CityNameEn"} |-> name], nested |-> EmptyDict]

\* Lines that are not Output Records: cut JSON, an empty line, text that is not
\* JSON, JSON that is no object, an object without CityNameEn.
MalformedLines ==
    {Line("truncated", EmptyRecord, TRUE),
     Line("empty", EmptyRecord, TRUE),
     Line("garbage", EmptyRecord, TRUE),
     Line("value", EmptyRecord, TRUE),
     Line("object", EmptyRecord, TRUE)}

IsOutputRecord(line) == line.kind = "object" /\ "CityNameEn" \in DOMAIN line.rec.flat

\* Ledgers of at most MaxLines lines: valid lines with pairwise different names and
\* at most one malformed line.
ExternalLedgers ==
    UNION {{f \in [1..n -> {RecordLine(NameOnly(name)) : name \in Names} \cup MalformedLines] :
              /\ \A i, j \in 1..n :
                    i # j /\ IsOutputRecord(f[i]) /\ IsOutputRecord(f[j])
                        => f[i].rec.flat["CityNameEn"] # f[j].rec.flat["CityNameEn"]
              /\ Cardinality({i \in 1..n : ~IsOutputRecord(f[i])}) <= 1} :
           n \in 0..MaxLines}

InitReplay ==
    /\ input \in Inputs
    /\ Len(input) = MaxInput
    /\ ledger \in ExternalLedgers
    /\ qid_file = save_json(EmptyDict)
    /\ countries_file = save_json(EmptyDict)
    /\ states_file = save_json(EmptyDict)
    /\ pc = "idle"
    /\ qid_lookup = EmptyDict
    /\ country_cache = EmptyDict
    /\ state_cache = EmptyDict
    /\ processed = {}
    /\ to_process = <<>>
    /\ idx = 0
    /\ city = EmptyRecord
    /\ qid = None
    /\ city_info = EmptyDict
    /\ paced = TRUE
    /\ runs = 0
    /\ ledger0 = <<>>
    /\ prevDone = FALSE
    /\ skipped = {}
    /\ prevSkipped = {}
    /\ requests = NoRequests

\* Only the startup of process_entries: the loads and the replay.
SpecReplay == InitReplay /\ [][StartRun]_vars

-----------------------------------------------------------------------------
(* Vocabulary of the properties *)

Alive == Running \cup {"done"}

NameOf(line) == line.rec.flat["CityNameEn"]

\* The lines of a file that are Output Records.
OutputLines(file) == {i \in 1..Len(file) : IsOutputRecord(file[i])}

\* The names the ledger records.
LedgerNames(file) == {NameOf(file[i]) : i \in OutputLines(file)}

\* How many Output Records of the file carry the name.
Occurrences(file, name) == Cardinality({i \in OutputLines(file) : NameOf(file[i]) = name})

\* How many times a record with the name was written to the file, as a line of
\* its own or at the end of a line begun by a cut append.
Written(file, name) ==
    Cardinality({i \in 1..Len(file) :
                    /\ "CityNameEn" \in DOMAIN file[i].rec.flat
                    /\ file[i].rec.flat["CityNameEn"] = name})

InputNames == {input[i]["CityNameEn"] : i \in 1..Len(input)}
InputOf(name) == input[CHOOSE i \in 1..Len(input) : input[i]["CityNameEn"] = name]

\* The second of two runs that both went (or go) to their end.
SecondRun == runs >= 2 /\ prevDone

CacheDomains == {"search", "Country", "State"}
CacheOf(dom) == CASE dom = "search" -> qid_lookup
                  [] dom = "Country" -> country_cache
                  [] OTHER -> state_cache
FileOf(dom) == CASE dom = "search" -> qid_file
                 [] dom = "Country" -> countries_file
                 [] OTHER -> states_file

\* Every entry of c is an entry of d.
Kept(c, d) == \A k \in DOMAIN c : k \in DOMAIN d /\ d[k] = c[k]
KeptFile(f, g) == \A k \in DOMAIN f.data : g.ok /\ k \in DOMAIN g.data /\ g.data[k] = f.data[k]

-----------------------------------------------------------------------------
(* C1 *)

\* C1 as stated: a second run on the same input, after a first run that went to
\* its end, appends nothing: the ledger after run 2 equals the ledger after run 1.
C1_SecondRunAppendsNothing ==
    (pc = "done" /\ SecondRun) => ledger = ledger0

\* C1 amended: in a second run after a first run that went to its end, no Output
\* Record is appended for a name the ledger left by the first run records; when it
\* records every input name, the ledger after run 2 equals the ledger after run 1.
\* (A name the resolver missed in the first run is not recorded, and is tried
\* again.)
C1_IdempotentResumability ==
    (pc \in Alive /\ SecondRun) =>
        /\ \A n \in LedgerNames(ledger0) : Occurrences(ledger, n) = Occurrences(ledger0, n)
        /\ (InputNames \subseteq LedgerNames(ledger0)) => ledger = ledger0

C1_Witness ==
    /\ pc = "done" /\ SecondRun
    /\ Len(input) >= 2
    /\ InputNames \subseteq LedgerNames(ledger0)
    /\ ledger = ledger0

-----------------------------------------------------------------------------
(* C2 *)

\* C2: a step issues an external request for a key of a cache domain only when
\* the key is neither in the in-memory cache nor in the persisted file, and no key
\* is requested twice in a run (one country fetch however many cities name it).
C2_FetchAtMostOnce ==
    [][\A dom \in CacheDomains : \A k \in DOMAIN requests'[dom] :
          Count(requests'[dom], k) > Count(requests[dom], k) =>
              /\ k \notin DOMAIN CacheOf(dom)
              /\ k \notin DOMAIN FileOf(dom).data
              /\ Count(requests'[dom], k) = 1]_vars

\* A second run took the country of a city from the cache it loaded, without a
\* request, and the first city's name from the name cache.
C2_Witness ==
    /\ runs = 2 /\ pc = "append"
    /\ "CountryDetails" \in DOMAIN city.nested
    /\ "StateDetails" \in DOMAIN city.nested
    /\ requests.Country = EmptyDict
    /\ requests.State = EmptyDict
    /\ requests.search = EmptyDict

-----------------------------------------------------------------------------
(* C3 *)

-----------------------------------------------------------------------------
(* C4 *)

\* C4: every Output Record appended to the ledger has a boolean IsCapital, true
\* exactly when the city fetch gave a country EID whose cached record has a
\* capital equal to the city's own EID.
C4_CapitalCorrectness ==
    [][(pc = "append" /\ Len(ledger') > Len(ledger) /\ IsOutputRecord(ledger'[Len(ledger')])) =>
          LET r == ledger'[Len(ledger')].rec
              cq == Get(city_info, "CountryQID")
          IN  /\ "IsCapital" \in DOMAIN r.flat
              /\ r.flat["IsCapital"] \in {PyTrue, PyFalse}
              /\ r.flat["IsCapital"] = PyTrue <=>
                    /\ cq # None
                    /\ cq \in DOMAIN country_cache
                    /\ "CapitalQID" \in DOMAIN country_cache[cq]
                    /\ country_cache[cq]["CapitalQID"] = qid]_vars

\* The ledger holds the record of a capital and the record of a city whose
\* country has another capital.
C4_Witness ==
    \E i, j \in OutputLines(ledger) :
        /\ ledger[i].rec.flat["IsCapital"] = PyTrue
        /\ ledger[j].rec.flat["IsCapital"] = PyFalse
        /\ "CountryDetails" \in DOMAIN ledger[j].rec.nested
        /\ "CapitalQID" \in DOMAIN ledger[j].rec.nested["CountryDetails"]

-----------------------------------------------------------------------------
(* C5 *)

\* C5: a name whose resolution failed in a run is in no Output Record of the
\* ledger and in no name cache, in memory or on disk, for the rest of the run and
\* at its end; and the next run on the same input searches for it again.
C5_ResolverMissRetry ==
    /\ pc \in Alive =>
          \A n \in skipped :
              /\ n \notin LedgerNames(ledger)
              /\ n \notin DOMAIN qid_lookup
              /\ qid_file.ok /\ n \notin DOMAIN qid_file.data
    /\ (pc = "done" /\ SecondRun) =>
          \A n \in prevSkipped : Count(requests.search, n) = 1

\* A name missed in the first run was searched again in the second, found, and
\* appended.
C5_Witness ==
    /\ pc = "done" /\ SecondRun
    /\ \E n \in prevSkipped :
          /\ Count(requests.search, n) = 1
          /\ n \in LedgerNames(ledger)
          /\ n \in DOMAIN qid_file.data

-----------------------------------------------------------------------------
(* C6 *)

\* C6: the replay of a ledger with at most one malformed line never ends the
\* process, and the processed set has one element for each valid line.
C6_MalformedLedgerTolerance ==
    runs >= 1 =>
        /\ pc # "aborted"
        /\ Cardinality(processed) = Cardinality(OutputLines(ledger))

-----------------------------------------------------------------------------
(* C7 *)

\* The country and state EIDs of the records the ledger holds.
CommittedCountries ==
    {ledger[i].rec.flat["CountryQID"] :
        i \in {j \in OutputLines(ledger) : "CountryDetails" \in DOMAIN ledger[j].rec.nested}}
CommittedStates ==
    {ledger[i].rec.flat["StateQID"] :
        i \in {j \in OutputLines(ledger) : "StateDetails" \in DOMAIN ledger[j].rec.nested}}

\* C7: after a termination the ledger holds complete Output Records only, and
\* the three cache files hold exactly the entries of the records in the ledger.
C7_InterruptionLeavesOnlyCommitted ==
    pc = "killed" =>
        /\ \A i \in 1..Len(ledger) : IsOutputRecord(ledger[i])
        /\ qid_file.ok /\ DOMAIN qid_file.data = LedgerNames(ledger)
        /\ countries_file.ok /\ DOMAIN countries_file.data = CommittedCountries
        /\ states_file.ok /\ DOMAIN states_file.data = CommittedStates

-----------------------------------------------------------------------------
(* C8 *)

\* C8: while the process runs, between two puts, each cache file equals the
\* mapping in memory; and a termination at any point, also inside a put, leaves
\* every entry that was in a cache file before it.
C8_WriteThroughDurability ==
    [][/\ pc \in Running =>
            /\ qid_file = save_json(qid_lookup)
            /\ countries_file = save_json(country_cache)
            /\ states_file = save_json(state_cache)
       /\ pc' = "killed" =>
            /\ KeptFile(qid_file, qid_file')
            /\ KeptFile(countries_file, countries_file')
            /\ KeptFile(states_file, states_file')]_vars

-----------------------------------------------------------------------------
(* C9 *)

\* C9: every Output Record of the ledger has every field of its Input Record,
\* with the value the caller gave.
C9_CallerFieldsPassThrough ==
    \A i \in OutputLines(ledger) :
        NameOf(ledger[i]) \in InputNames =>
            \A k \in DOMAIN InputOf(NameOf(ledger[i])) :
                /\ k \in DOMAIN ledger[i].rec.flat
                /\ ledger[i].rec.flat[k] = InputOf(NameOf(ledger[i]))[k]

-----------------------------------------------------------------------------
(* C10 *)

CountryKeys == {"CountryQID", "CountryNameEn", "CountryNameAr", "IsoAlpha2"}
StateKeys == {"StateQID", "StateNameEn", "StateNameAr", "IsoCode"}

\* The lines of a file that end with the text of a record.
RecordTexts(file) == {i \in 1..Len(file) : "CityNameEn" \in DOMAIN file[i].rec.flat}

\* A run that reached its end wrote one record for every city of its work set that
\* the resolver did not miss.
EveryResolvedCityWritten ==
    pc = "done" =>
        \A i \in 1..Len(to_process) :
            LET n == to_process[i]["CityNameEn"]
            IN  Written(ledger, n) = Written(ledger0, n) + (IF n \in skipped THEN 0 ELSE 1)

\* C10 as stated: the pipeline goes on, and every record written has every city
\* field, and every field of its country and state records, present (null when
\* the document or the fetch gave none).
C10_MissingFieldsAreNull ==
    /\ EveryResolvedCityWritten
    /\ \A i \in RecordTexts(ledger) :
          LET r == ledger[i].rec
          IN  /\ CityKeys \subseteq DOMAIN r.flat
              /\ "CountryDetails" \in DOMAIN r.nested =>
                    CountryKeys \cup {"CapitalQID"} \subseteq DOMAIN r.nested["CountryDetails"]
              /\ "StateDetails" \in DOMAIN r.nested =>
                    StateKeys \cup {"CountryQID"} \subseteq DOMAIN r.nested["StateDetails"]

\* C10 amended: the pipeline goes on, and every record is written.  When the city
\* document was read, the record has each of the seven city fields, null where
\* the document has no value; when the city fetch failed, the record has no city
\* field of the pipeline: it is the Input Record with IsCapital false and no
\* nested record.  A country (state) record read from a document has its QID,
\* both names and its ISO code, null where missing, and CapitalQID (CountryQID)
\* only when the document has one; after a failed fetch it is the empty record.
C10_GracefulDegradation ==
    /\ EveryResolvedCityWritten
    /\ \A i \in RecordTexts(ledger) :
          LET r == ledger[i].rec
              caller == InputOf(r.flat["CityNameEn"])
          IN  /\ \/ CityKeys \subseteq DOMAIN r.flat
                 \/ /\ r.flat = Put(caller, "IsCapital", PyFalse)
                    /\ r.nested = EmptyDict
              /\ "CountryDetails" \in DOMAIN r.nested =>
                    LET d == r.nested["CountryDetails"]
                    IN  \/ d = EmptyDict
                        \/ /\ CountryKeys \subseteq DOMAIN d
                           /\ DOMAIN d \subseteq CountryKeys \cup {"CapitalQID"}
                           /\ "CapitalQID" \in DOMAIN d => d["CapitalQID"] # None
              /\ "StateDetails" \in DOMAIN r.nested =>
                    LET d == r.nested["StateDetails"]
                    IN  \/ d = EmptyDict
                        \/ /\ StateKeys \subseteq DOMAIN d
                           /\ DOMAIN d \subseteq StateKeys \cup {"CountryQID"}
                           /\ "CountryQID" \in DOMAIN d => d["CountryQID"] # None

\* A record written after a failed city fetch is followed by the record of a city
\* whose document had no Arabic label, with a country whose fetch failed.
C10_Witness ==
    \E i, j \in OutputLines(ledger) :
        /\ i < j
        /\ "CityNameAr" \notin DOMAIN ledger[i].rec.flat
        /\ "CityNameAr" \in DOMAIN ledger[j].rec.flat
        /\ ledger[j].rec.flat["CityNameAr"] = None
        /\ "CountryDetails" \in DOMAIN ledger[j].rec.nested
        /\ ledger[j].rec.nested["CountryDetails"] = EmptyDict

-----------------------------------------------------------------------------
(* C11 *)

\* The step issues an external request (a search or a fetch of a document).
Requested ==
    \E dom \in DOMAIN requests : \E k \in DOMAIN requests'[dom] :
        Count(requests'[dom], k) > Count(requests[dom], k)

\* C11: an external request is issued for a record only when the pacing delay
\* has elapsed since the record before it in the run became terminal, Emitted or
\* Skipped.
C11_GlobalPacing ==
    [][Requested => paced]_vars

-----------------------------------------------------------------------------
(* C12 *)

\* The text of file f is a beginning of the text of file g: g has the lines of
\* f, and may continue a last line of f that has no newline.
IsPrefix(f, g) ==
    /\ Len(f) <= Len(g)
    /\ \A i \in 1..Len(f) :
          \/ f[i] = g[i]
          \/ i = Len(f) /\ ~f[i].nl /\ g[i].kind = "garbage"

\* The first line the current run writes to: the line after the ledger it found,
\* or the last line of that ledger when it has no newline.
RunStart ==
    IF Len(ledger0) > 0 /\ ~ledger0[Len(ledger0)].nl THEN Len(ledger0) ELSE Len(ledger0) + 1

NamesOf(lines) == [i \in 1..Len(lines) |-> lines[i].rec.flat["CityNameEn"]]

\* The names of the records the current run has appended, in the order of the
\* file.
AppendedNames ==
    NamesOf(SelectSeq(SubSeq(ledger, RunStart, Len(ledger)), LAMBDA l : l.nl))

\* The names of the input records, in input order, that were not in the
\* processed set at startup, that the loop has left, and that were resolved.
ExpectedNames ==
    LET work == SelectSeq(input, LAMBDA c : c["CityNameEn"] \notin processed)
        left == SubSeq(work, 1, idx - 1)
        emitted == SelectSeq(left, LAMBDA c : c["CityNameEn"] \notin skipped)
    IN  [i \in 1..Len(emitted) |-> emitted[i]["CityNameEn"]]

\* C12: every step leaves the ledger it found as a prefix of the ledger it
\* leaves, and the records a run has appended are one for each input record that
\* was not processed at startup and was resolved, in the order of the input.
C12_AppendOnlyOrderedOutput ==
    /\ [][IsPrefix(ledger, ledger')]_vars
    /\ [](pc \in Alive => AppendedNames = ExpectedNames)

\* A run of an input that lists the second city before the first appended both
\* records, in that order.
C12_Witness ==
    /\ pc = "done"
    /\ Len(input) = 2
    /\ input[1]["CityNameEn"] = CityName(2)
    /\ AppendedNames = <<CityName(2), CityName(1)>>

-----------------------------------------------------------------------------
(* C13 *)

\* C13: whatever the persisted ledger and cache files hold and whatever the
\* external calls answer, no run of a loaded input ends by an uncaught error.
C13_OnlyInputErrorsTerminate ==
    pc # "aborted"

-----------------------------------------------------------------------------
(* C14 *)

\* The step issues an external request of the domain.
RequestedOf(dom) ==
    \E k \in DOMAIN requests'[dom] : Count(requests'[dom], k) > Count(requests[dom], k)

\* The step leaves the current record in a terminal state and the loop goes to
\* the next record or to its end.
Terminal ==
    /\ idx' = idx + 1
    /\ pc' = IF idx + 1 > Len(to_process) THEN "done" ELSE "resolve"

\* C14: the steps of a record come in the order resolve, city fetch, country
\* link, state link, append; the loop goes to the next record only from a terminal
\* step; the record is Skipped exactly when the resolver returned not-found, and
\* then nothing is fetched or appended for it; otherwise it goes on to the append,
\* which is its Emitted step; and a country or state fetch is issued only after
\* the city fetch of the record.
C14_PerRecordStateMachine ==
    [][pc' # "killed" =>
         /\ pc \in Stopped => pc' \in {"resolve", "done", "aborted"}
         /\ pc = "resolve" =>
               /\ Truthy(qid') => pc' = "enrich" /\ idx' = idx
               /\ ~Truthy(qid') =>
                     /\ Terminal
                     /\ ledger' = ledger
                     /\ ~RequestedOf("City") /\ ~RequestedOf("Country") /\ ~RequestedOf("State")
         /\ pc = "enrich" => pc' = "country" /\ idx' = idx
         /\ pc = "country" => pc' = "state" /\ idx' = idx
         /\ pc = "state" => pc' = "append" /\ idx' = idx
         /\ pc = "append" =>
               /\ Terminal
               /\ Written(ledger', city.flat["CityNameEn"])
                     = Written(ledger, city.flat["CityNameEn"]) + 1
         /\ RequestedOf("search") => pc = "resolve"
         /\ RequestedOf("City") => pc = "enrich"
         /\ RequestedOf("Country") => pc = "country" /\ Count(requests.City, qid) = 1
         /\ RequestedOf("State") => pc = "state" /\ Count(requests.City, qid) = 1
         /\ ledger' # ledger => pc = "append"
         /\ pc \in Running => to_process' = to_process]_vars

\* A run went to its end with one record Skipped and, after it, one Emitted with
\* its country and its state fetched.
C14_Witness ==
    /\ pc = "done"
    /\ Len(to_process) = 2
    /\ to_process[1]["CityNameEn"] \in skipped
    /\ AppendedNames = <<to_process[2]["CityNameEn"]>>
    /\ requests.Country # EmptyDict
    /\ requests.State # EmptyDict

-----------------------------------------------------------------------------
(* C15 *)

\* The record a step that completes append_jsonl writes to the ledger.
AppendedRecord == ledger'[Len(ledger')].rec

\* C15: a record that is appended has CountryDetails exactly when the city fetch
\* gave a country EID, and it is the value the country cache holds for that EID
\* at the append; the same for StateDetails and the state cache.  In the scenario
\* of the specification (the city resolved to an EID, a city document with
\* latitude 10.0, longitude 20.0 and a country whose record has that EID as
\* capital and IsoAlpha2 TV) the record has IsCapital true, Latitude 10.0 and
\* CountryDetails.IsoAlpha2 TV.
C15_NestedDetails ==
    [][(pc = "append" /\ pc' \in Alive) =>
          LET r == AppendedRecord
              cq == Get(city_info, "CountryQID")
              sq == Get(city_info, "StateQID")
          IN  /\ "CountryDetails" \in DOMAIN r.nested <=> Truthy(cq)
              /\ Truthy(cq) =>
                    /\ cq \in DOMAIN country_cache
                    /\ r.nested["CountryDetails"] = country_cache[cq]
              /\ "StateDetails" \in DOMAIN r.nested <=> Truthy(sq)
              /\ Truthy(sq) =>
                    /\ sq \in DOMAIN state_cache
                    /\ r.nested["StateDetails"] = state_cache[sq]
              /\ ( /\ Truthy(cq)
                   /\ Get(city_info, "Latitude") = "10.0"
                   /\ Get(city_info, "Longitude") = "20.0"
                   /\ Get(country_cache[cq], "CapitalQID") = qid
                   /\ Get(country_cache[cq], "IsoAlpha2") = "TV" )
                 => /\ r.flat["IsCapital"] = PyTrue
                    /\ r.flat["Latitude"] = "10.0"
                    /\ r.nested["CountryDetails"]["IsoAlpha2"] = "TV"]_vars

\* The ledger holds the record of the scenario, with its state attached, and a
\* record without CountryDetails and StateDetails.
C15_Witness ==
    \E i, j \in OutputLines(ledger) :
        /\ ledger[i].rec.flat["IsCapital"] = PyTrue
        /\ Get(ledger[i].rec.flat, "Latitude") = "10.0"
        /\ "CountryDetails" \in DOMAIN ledger[i].rec.nested
        /\ Get(ledger[i].rec.nested["CountryDetails"], "IsoAlpha2") = "TV"
        /\ "StateDetails" \in DOMAIN ledger[i].rec.nested
        /\ Get(ledger[i].rec.nested["StateDetails"], "IsoCode") = "TV-1"
        /\ DOMAIN ledger[j].rec.nested = {}
        /\ CityKeys \subseteq DOMAIN ledger[j].rec.flat

-----------------------------------------------------------------------------
(* C16 *)

\* The names of the input that the ledger recorded when the run started.
AlreadyProcessed == InputNames \cap LedgerNames(ledger0)

\* C16: in a run, for a name of the input that the ledger recorded at startup,
\* there is no search, no city fetch and no append, and it is not in the work
\* set; the work set and the processed set stay as computed at startup; and every
\* step that issues a request or writes a cache file or the ledger acts for the
\* current record of the work set, whose name the ledger did not record.
C16_ProcessedNamesCostNothing ==
    /\ [](pc \in Alive =>
            \A n \in AlreadyProcessed :
                /\ n \in processed
                /\ \A k \in 1..Len(to_process) : to_process[k]["CityNameEn"] # n
                /\ Count(requests.search, n) = 0
                /\ \A j \in CityIds : CityName(j) = n => Count(requests.City, CityEID(j)) = 0
                /\ Written(ledger, n) = Written(ledger0, n))
    /\ [][/\ (pc \in Running /\ pc' \in Alive) =>
               to_process' = to_process /\ processed' = processed
          /\ (durable' # durable \/ Requested) =>
               /\ pc \in Running
               /\ to_process[idx]["CityNameEn"] \notin LedgerNames(ledger0)]_vars

\* A second run found one of its two input names in the ledger, and resolved,
\* fetched and appended the other.
C16_Witness ==
    /\ runs = 2 /\ pc = "done"
    /\ Len(input) = 2
    /\ Cardinality(AlreadyProcessed) = 1
    /\ Len(AppendedNames) = 1
    /\ requests.City # EmptyDict

-----------------------------------------------------------------------------
(* C17 *)

\* C17: with pairwise different input names, after any runs and terminations no
\* name is in more than one well-formed line of the ledger, and every record
\* written by a completed append is in the processed set that a run started now
\* computes from the ledger.
C17_LedgerUniqueness ==
    /\ \A n \in Names : Occurrences(ledger, n) <= 1
    /\ \A i \in RecordTexts(ledger) :
          /\ ~load_processed_city_names(ledger).raised
          /\ ledger[i].rec.flat["CityNameEn"] \in load_processed_city_names(ledger).value

-----------------------------------------------------------------------------
(* C18 *)

\* The mapping holds the empty record, which get_entity_info returns for a fetch
\* that failed, for none of its keys.
NoEmptyRecord(cache) == \A k \in DOMAIN cache : cache[k] # EmptyDict

\* C18: the country cache and the state cache, in memory and in their files,
\* hold only records of fetches that succeeded; a failed fetch adds no key.
C18_NoNegativeEntries ==
    /\ NoEmptyRecord(country_cache)
    /\ NoEmptyRecord(state_cache)
    /\ NoEmptyRecord(countries_file.data)
    /\ NoEmptyRecord(states_file.data)

====
